---- MODULE Spec2Model ----
(***************************************************************************)
(* Model of the runtime type-coercion engine (src/check_type.py) and of    *)
(* the structural validator (src/todo.py, _validate_complex_types).        *)
(*                                                                         *)
(* A Python value is the pair <<type name, payload>>:                      *)
(*   <<"int", n>>  <<"bool", b>>  <<"str", s>>  <<"NoneType", 0>>          *)
(*   <<"list", seq of values>>    <<"tuple", seq of values>>               *)
(*   <<"set", set of values>>     <<"dict", seq of <<key, value>>>>        *)
(* A dict payload keeps the insertion order of its keys, as Python does.   *)
(* A type descriptor is a record [kind, name, args]: a class               *)
(* (kind "simple") or a typing alias with an origin (kind "generic").      *)
(* The outcome of a call is a record: a returned value or a raised         *)
(* exception.                                                              *)
(***************************************************************************)
EXTENDS Integers, Sequences, FiniteSets, TLC

VARIABLES op, obj, target_type, auto_convert, expected_types, result

\* The state of a callable decorated with validate_data: the callable, the
\* decorator's arguments, what the decorator returned, the call in progress
\* and what it has produced so far.
VARIABLES pc, func, strict, validate_return, custom_types, types_override,
          custom_types_at_wrap, wrapper, call_args, call_kwargs, types_to_validate,
          message, body_started, body_result, outcome

callVars == <<op, obj, target_type, auto_convert, expected_types, result>>

wrapperVars ==
    <<pc, func, strict, validate_return, custom_types, types_override,
      custom_types_at_wrap, wrapper, call_args, call_kwargs, types_to_validate,
      message, body_started, body_result, outcome>>

vars == <<callVars, wrapperVars>>

(***************************************************************************)
(* Bounds of the explored inputs.                                          *)
(***************************************************************************)
MaxInt == 1

MaxLen == 4

MaxPairs == 2

(***************************************************************************)
(* Values.                                                                 *)
(***************************************************************************)
IntV(n) == <<"int", n>>

BoolV(b) == <<"bool", b>>

StrV(s) == <<"str", s>>

NoneV == <<"NoneType", 0>>

ListV(s) == <<"list", s>>

TupleV(s) == <<"tuple", s>>

SetV(S) == <<"set", S>>

DictV(items) == <<"dict", items>>

TypeOf(v) == v[1]

Payload(v) == v[2]

(***************************************************************************)
(* Outcomes of a call.                                                     *)
(***************************************************************************)
Return(v) == [kind |-> "return", val |-> v]

Raise(e, srcName, targetNames) ==
    [kind |-> "raise", exc |-> e, src |-> srcName, names |-> targetNames]

NoResult == [kind |-> "none"]

IsReturn(r) == r.kind = "return"

IsRaise(r) == r.kind = "raise"

(***************************************************************************)
(* Type descriptors.                                                       *)
(***************************************************************************)
Simple(n) == [kind |-> "simple", name |-> n, args |-> <<>>]

Generic(o, a) == [kind |-> "generic", name |-> o, args |-> a]

\* inspect.Parameter.empty and inspect.Signature.empty: no annotation.
Empty == [kind |-> "empty", name |-> "", args |-> <<>>]

\* The annotation None, which the signature keeps as the value None.
NoneLiteral == [kind |-> "literal", name |-> "None", args |-> <<>>]

\* A list or tuple of types given where one type is expected.
TypeList(tps) == [kind |-> "typelist", name |-> "", args |-> tps]

get_origin(tp) == IF tp.kind = "generic" THEN tp.name ELSE "None"

get_args(tp) == tp.args

\* The name typing gives a subscripted or bare alias of an origin.
AliasName(o) ==
    CASE o = "list" -> "List"
      [] o = "tuple" -> "Tuple"
      [] o = "set" -> "Set"
      [] o = "dict" -> "Dict"
      [] OTHER -> o

\* typing names a Union of two members, one of them NoneType, Optional.
IsOptional(tp) ==
    /\ tp.kind = "generic"
    /\ tp.name = "Union"
    /\ Len(tp.args) = 2
    /\ \E i \in 1..2 : tp.args[i] = Simple("NoneType")

\* getattr(arg, '__name__', str(arg)): a class gives its name, a typing
\* alias the name of the alias (List, Dict, Tuple, Set, Union, Optional).
TypeName(tp) ==
    IF tp.kind = "simple" THEN tp.name
    ELSE IF IsOptional(tp) THEN "Optional"
    ELSE AliasName(tp.name)

(***************************************************************************)
(* Python built-ins used by the engine.                                    *)
(***************************************************************************)
Digit(d) == <<"0", "1", "2", "3", "4", "5", "6", "7", "8", "9">>[d + 1]

RECURSIVE NatToStr(_)
NatToStr(n) == IF n < 10 THEN Digit(n) ELSE NatToStr(n \div 10) \o Digit(n % 10)

IntToStr(n) == IF n < 0 THEN "-" \o NatToStr(0 - n) ELSE NatToStr(n)

IsNumber(v) == TypeOf(v) \in {"int", "bool"}

NumOf(v) == IF TypeOf(v) = "bool" THEN (IF Payload(v) THEN 1 ELSE 0) ELSE Payload(v)

\* isinstance(obj, Iterable)
IsIterable(v) == TypeOf(v) \in {"str", "list", "tuple", "set", "dict"}

RECURSIVE PyEq(_, _)
PyEq(a, b) ==
    IF IsNumber(a) /\ IsNumber(b) THEN NumOf(a) = NumOf(b)
    ELSE IF TypeOf(a) # TypeOf(b) THEN FALSE
    ELSE IF TypeOf(a) \in {"list", "tuple"}
         THEN /\ Len(Payload(a)) = Len(Payload(b))
              /\ \A i \in 1..Len(Payload(a)) : PyEq(Payload(a)[i], Payload(b)[i])
    ELSE a = b

RECURSIVE Hashable(_)
Hashable(v) ==
    IF TypeOf(v) \in {"int", "bool", "str", "NoneType"} THEN TRUE
    ELSE IF TypeOf(v) = "tuple"
         THEN \A i \in 1..Len(Payload(v)) : Hashable(Payload(v)[i])
    ELSE FALSE

\* d[k] = v on an insertion-ordered dict: an equal key keeps its place and
\* its first spelling, and takes the new value.
DictSetItem(items, k, v) ==
    IF \E i \in 1..Len(items) : PyEq(items[i][1], k)
    THEN [i \in 1..Len(items) |->
             IF PyEq(items[i][1], k) THEN <<items[i][1], v>> ELSE items[i]]
    ELSE Append(items, <<k, v>>)

RECURSIVE DictFromPairs(_)
DictFromPairs(pairs) ==
    IF pairs = <<>> THEN <<>>
    ELSE LET n == Len(pairs)
         IN DictSetItem(DictFromPairs(SubSeq(pairs, 1, n - 1)), pairs[n][1], pairs[n][2])

\* s.add(x) for every x of a sequence: an equal element already present stays.
RECURSIVE SetFromSeq(_)
SetFromSeq(s) ==
    IF s = <<>> THEN {}
    ELSE LET n == Len(s)
             rest == SetFromSeq(SubSeq(s, 1, n - 1))
         IN IF \E x \in rest : PyEq(x, s[n]) THEN rest ELSE rest \cup {s[n]}

\* Iteration order of a set of small non-negative integers: the hash of an
\* integer is the integer, so the slots are visited in increasing order.
RECURSIVE SetIter(_)
SetIter(S) ==
    IF S = {} THEN <<>>
    ELSE IF Cardinality(S) = 1 THEN <<CHOOSE x \in S : TRUE>>
    ELSE LET m == CHOOSE x \in S : \A y \in S : NumOf(x) <= NumOf(y)
         IN <<m>> \o SetIter(S \ {m})

\* list(obj) for an iterable that is not text
IterOf(v) ==
    CASE TypeOf(v) \in {"list", "tuple"} -> Payload(v)
      [] TypeOf(v) = "set" -> SetIter(Payload(v))
      [] TypeOf(v) = "dict" -> [i \in 1..Len(Payload(v)) |-> Payload(v)[i][1]]

\* bool(obj)
Truthy(v) ==
    CASE TypeOf(v) = "int" -> Payload(v) # 0
      [] TypeOf(v) = "bool" -> Payload(v)
      [] TypeOf(v) = "str" -> Payload(v) # ""
      [] TypeOf(v) = "NoneType" -> FALSE
      [] TypeOf(v) \in {"list", "tuple", "dict"} -> Payload(v) # <<>>
      [] TypeOf(v) = "set" -> Payload(v) # {}

RECURSIVE JoinStr(_, _)
JoinStr(strs, sep) ==
    IF strs = <<>> THEN ""
    ELSE IF Len(strs) = 1 THEN strs[1]
    ELSE strs[1] \o sep \o JoinStr(Tail(strs), sep)

\* repr(obj); the text values explored hold no quote and no escape.
RECURSIVE Repr(_)
Repr(v) ==
    CASE TypeOf(v) = "int" -> IntToStr(Payload(v))
      [] TypeOf(v) = "bool" -> (IF Payload(v) THEN "True" ELSE "False")
      [] TypeOf(v) = "str" -> "'" \o Payload(v) \o "'"
      [] TypeOf(v) = "NoneType" -> "None"
      [] TypeOf(v) = "list" ->
            "[" \o JoinStr([i \in 1..Len(Payload(v)) |-> Repr(Payload(v)[i])], ", ") \o "]"
      [] TypeOf(v) = "tuple" ->
            IF Len(Payload(v)) = 1 THEN "(" \o Repr(Payload(v)[1]) \o ",)"
            ELSE "(" \o JoinStr([i \in 1..Len(Payload(v)) |-> Repr(Payload(v)[i])], ", ") \o ")"
      [] TypeOf(v) = "set" ->
            IF Payload(v) = {} THEN "set()"
            ELSE LET it == SetIter(Payload(v))
                 IN "{" \o JoinStr([i \in 1..Len(it) |-> Repr(it[i])], ", ") \o "}"
      [] TypeOf(v) = "dict" ->
            "{" \o JoinStr([i \in 1..Len(Payload(v)) |->
                               Repr(Payload(v)[i][1]) \o ": " \o Repr(Payload(v)[i][2])], ", ") \o "}"

\* str(obj)
PyStr(v) == IF TypeOf(v) = "str" THEN v ELSE StrV(Repr(v))

\* The integers a decimal numeral of the explored text values can denote.
ParseRange == 0..(MaxInt + 1)

\* int(obj): a number gives its integer, text is parsed as a decimal numeral
\* (ValueError when it is none), anything else is a TypeError.
PyInt(v) ==
    CASE IsNumber(v) -> Return(IntV(NumOf(v)))
      [] TypeOf(v) = "str" ->
            IF \E n \in ParseRange : IntToStr(n) = Payload(v)
            THEN Return(IntV(CHOOSE n \in ParseRange : IntToStr(n) = Payload(v)))
            ELSE Raise("ValueError", "str", <<"int">>)
      [] OTHER -> Raise("TypeError", TypeOf(v), <<"int">>)

(***************************************************************************)
(* The coercion engine, src/check_type.py.                                 *)
(***************************************************************************)
RECURSIVE check_type(_, _, _)
RECURSIVE _convert_generic_type(_, _)
RECURSIVE _convert_simple_type(_, _)
RECURSIVE ConvertItems(_, _)
RECURSIVE ConvertEntries(_, _, _)
RECURSIVE TryAlternatives(_, _, _)

\* dict(iterable of pairs): TypeError on the first key that cannot be hashed.
PyDict(pairs) ==
    IF \A i \in 1..Len(pairs) : Hashable(pairs[i][1])
    THEN Return(DictV(DictFromPairs(pairs)))
    ELSE Raise("TypeError", "list", <<"dict">>)

\* origin(converted_items) for origin in (list, tuple, set)
Construct(origin, items) ==
    CASE origin = "list" -> Return(ListV(items))
      [] origin = "tuple" -> Return(TupleV(items))
      [] origin = "set" ->
            IF \A i \in 1..Len(items) : Hashable(items[i])
            THEN Return(SetV(SetFromSeq(items)))
            ELSE Raise("TypeError", "list", <<"set">>)

\* all(isinstance(p, (list, tuple)) and len(p) == 2 for p in obj)
IsPairSeq(seq) ==
    \A i \in 1..Len(seq) :
        TypeOf(seq[i]) \in {"list", "tuple"} /\ Len(Payload(seq[i])) = 2

\* map(tuple, obj)
PairsOf(seq) == [i \in 1..Len(seq) |-> <<Payload(seq[i])[1], Payload(seq[i])[2]>>]

\* A pairing of neighbours, zip(obj, obj[1:]), in place of the alternation.
ZipNeighbours(seq) == [i \in 1..(Len(seq) - 1) |-> <<seq[i], seq[i + 1]>>]

\* zip(obj[::2], obj[1::2])
ZipAlternate(seq) == [i \in 1..(Len(seq) \div 2) |-> <<seq[2 * i - 1], seq[2 * i]>>]

\* isinstance(obj, (list, tuple)) and obj
IsNonEmptySequence(v) == TypeOf(v) \in {"list", "tuple"} /\ Payload(v) # <<>>

\* convert with its two sequence rules tried in the other order.
convertEvenLengthFirst(v, target) ==
    IF target = "dict"
    THEN IF IsNonEmptySequence(v)
         THEN IF Len(Payload(v)) % 2 = 0 THEN PyDict(ZipAlternate(Payload(v)))
              ELSE IF IsPairSeq(Payload(v)) THEN PyDict(PairsOf(Payload(v)))
              ELSE Raise("ValueError", TypeOf(v), <<"dict">>)
         ELSE Raise("ValueError", TypeOf(v), <<"dict">>)
    ELSE IF IsIterable(v) /\ TypeOf(v) # "str"
         THEN Construct(target, IterOf(v))
         ELSE Construct(target, <<v>>)

convert(v, target) ==
    IF target = "dict"
    THEN IF IsNonEmptySequence(v)
         THEN IF IsPairSeq(Payload(v)) THEN PyDict(PairsOf(Payload(v)))
              ELSE IF Len(Payload(v)) % 2 = 0 THEN PyDict(ZipAlternate(Payload(v)))
              ELSE Raise("ValueError", TypeOf(v), <<"dict">>)
         ELSE Raise("ValueError", TypeOf(v), <<"dict">>)
    ELSE IF IsIterable(v) /\ TypeOf(v) # "str"
         THEN Construct(target, IterOf(v))
         ELSE Construct(target, <<v>>)

\* A source whose text is iterated like any other iterable; a text of at
\* most one character yields that many one-character texts.
SourceItemsSplittingText(v) ==
    IF ~IsIterable(v) THEN <<v>>
    ELSE IF TypeOf(v) = "str" THEN (IF Payload(v) = "" THEN <<>> ELSE <<v>>)
    ELSE IterOf(v)

\* if not isinstance(obj, Iterable) or isinstance(obj, str): obj = [obj]
SourceItems(v) ==
    IF ~IsIterable(v) \/ TypeOf(v) = "str" THEN <<v>> ELSE IterOf(v)

\* The element descriptor the sequence branch applies to every item.
ElementType(args) == args[1]

\* except (ValueError, TypeError, AttributeError) as e: raise TypeConversionError
WrapError(r, v, tp) ==
    IF IsRaise(r) /\ r.exc \in {"ValueError", "TypeError", "AttributeError"}
    THEN Raise("TypeConversionError", TypeOf(v), <<TypeName(tp)>>)
    ELSE r

\* The exceptions the union loop swallows before trying the next alternative.
UnionCaught == {"TypeConversionError"}

\* _ULTRA_CONVERSION_CACHE[name](obj)
_ULTRA_CONVERSION_CACHE(name, v) ==
    CASE name = "int" -> PyInt(v)
      [] name = "str" -> Return(PyStr(v))
      [] name = "bool" -> Return(BoolV(Truthy(v)))
      [] name = "list" -> IF TypeOf(v) = "list" THEN Return(v) ELSE Return(ListV(<<v>>))
      [] name = "tuple" ->
            IF TypeOf(v) = "tuple" THEN Return(v)
            ELSE IF ~IsIterable(v) \/ TypeOf(v) = "str" THEN Return(TupleV(<<v>>))
            ELSE Return(TupleV(IterOf(v)))
      [] name = "set" ->
            IF TypeOf(v) = "set" THEN Return(v)
            ELSE IF Hashable(v) THEN Return(SetV({v}))
            ELSE Raise("TypeError", TypeOf(v), <<"set">>)
      [] name = "dict" -> convert(v, "dict")

CachedTypes == {"int", "str", "bool", "list", "tuple", "set", "dict"}

\* target_type(obj) for a class without a registered converter; the only
\* such class explored is NoneType, whose constructor takes no argument.
Constructor(name, v) == Raise("TypeError", TypeOf(v), <<name>>)

_convert_simple_type(v, tp) ==
    IF tp.name \in CachedTypes
    THEN WrapError(_ULTRA_CONVERSION_CACHE(tp.name, v), v, tp)
    ELSE WrapError(Constructor(tp.name, v), v, tp)

\* [check_type(item, args[0], auto_convert=True) for item in obj]: the first
\* failing item ends the comprehension with its exception. The returned
\* record carries the list of converted items.
ConvertItems(items, tp) ==
    IF items = <<>> THEN [kind |-> "return", val |-> <<>>]
    ELSE LET n == Len(items)
             before == ConvertItems(SubSeq(items, 1, n - 1), tp)
         IN IF IsRaise(before) THEN before
            ELSE LET r == check_type(items[n], tp, TRUE)
                 IN IF IsRaise(r) THEN r
                    ELSE [kind |-> "return", val |-> Append(before.val, r.val)]

\* {check_type(k, key_type): check_type(v, value_type) for k, v in obj.items()}
ConvertEntries(items, key_type, value_type) ==
    IF items = <<>> THEN [kind |-> "return", val |-> <<>>]
    ELSE LET n == Len(items)
             before == ConvertEntries(SubSeq(items, 1, n - 1), key_type, value_type)
         IN IF IsRaise(before) THEN before
            ELSE LET k == check_type(items[n][1], key_type, TRUE)
                 IN IF IsRaise(k) THEN k
                    ELSE LET w == check_type(items[n][2], value_type, TRUE)
                         IN IF IsRaise(w) THEN w
                            ELSE IF ~Hashable(k.val)
                                 THEN Raise("TypeError", TypeOf(k.val), <<"dict">>)
                                 ELSE [kind |-> "return",
                                       val |-> DictSetItem(before.val, k.val, w.val)]

\* for arg_type in args: try: return check_type(...) except TypeConversionError: continue
TryAlternatives(v, args, i) ==
    IF i > Len(args)
    THEN Raise("TypeConversionError", TypeOf(v), [j \in 1..Len(args) |-> TypeName(args[j])])
    ELSE LET r == check_type(v, args[i], TRUE)
         IN IF IsRaise(r) /\ r.exc \in UnionCaught
            THEN TryAlternatives(v, args, i + 1)
            ELSE r

_convert_generic_type(v, tp) ==
    LET origin == get_origin(tp)
        args == get_args(tp)
    IN IF origin = "None" THEN _convert_simple_type(v, tp)
       ELSE IF origin \in {"list", "tuple", "set"}
       THEN IF args # <<>>
            THEN LET converted == ConvertItems(SourceItems(v), ElementType(args))
                 IN IF IsRaise(converted) THEN converted
                    ELSE Construct(origin, converted.val)
            ELSE Construct(origin, SourceItems(v))
       ELSE IF origin = "dict"
       THEN LET src == IF TypeOf(v) # "dict" THEN convert(v, "dict") ELSE Return(v)
            IN IF IsRaise(src) THEN src
               ELSE IF Len(args) = 2
                    THEN LET entries == ConvertEntries(Payload(src.val), args[1], args[2])
                         IN IF IsRaise(entries) THEN entries
                            ELSE Return(DictV(entries.val))
                    ELSE Return(src.val)
       ELSE TryAlternatives(v, args, 1)

\* A fast path that never fires: every call goes through a converter.
FastPathNever(v, tp) == FALSE

\* if type(obj) is target_type: return obj
FastPath(v, tp) == tp.kind = "simple" /\ TypeOf(v) = tp.name

RECURSIVE TypeRepr(_)
\* typing's rendering of a type inside an alias: a builtin class by its
\* name, an alias as typing.Name[...], Optional[X] without the NoneType.
TypeRepr(tp) ==
    IF tp.kind = "simple" THEN tp.name
    ELSE IF tp.args = <<>> THEN "typing." \o AliasName(tp.name)
    ELSE IF IsOptional(tp)
    THEN LET other == IF tp.args[1] = Simple("NoneType") THEN tp.args[2] ELSE tp.args[1]
         IN "typing.Optional[" \o TypeRepr(other) \o "]"
    ELSE "typing." \o AliasName(tp.name) \o "["
             \o JoinStr([i \in 1..Len(tp.args) |-> TypeRepr(tp.args[i])], ", ") \o "]"

\* str(target_type), as the f-string {target_type} prints it.
StrOfType(tp) ==
    IF tp.kind = "simple" THEN "<class '" \o tp.name \o "'>" ELSE TypeRepr(tp)

check_type(v, tp, auto) ==
    IF FastPath(v, tp) THEN Return(v)
    ELSE IF ~auto THEN Raise("TypeConversionError", TypeOf(v), <<StrOfType(tp)>>)
    ELSE IF tp.kind = "generic" THEN _convert_generic_type(v, tp)
    ELSE _convert_simple_type(v, tp)

to_list_of(v, element_type) == check_type(v, Generic("list", <<element_type>>), TRUE)

to_set_of(v, element_type) == check_type(v, Generic("set", <<element_type>>), TRUE)

(***************************************************************************)
(* The structural validator, src/todo.py.                                  *)
(***************************************************************************)
\* A check by identity of the class, which no subclass passes.
IsSameClass(sub, cls) == sub = cls

\* issubclass(sub, cls) for the built-in classes: bool derives from int.
IsSubclass(sub, cls) == sub = cls \/ (sub = "bool" /\ cls = "int")

RECURSIVE UnionSubclassCheck(_, _, _)
\* typing.Union[...].__instancecheck__: issubclass(type(obj), arg) for each
\* alternative in order, stopping at the first that holds.
UnionSubclassCheck(cls, args, i) ==
    IF i > Len(args) THEN Return(BoolV(FALSE))
    ELSE IF args[i].kind = "generic" /\ args[i].args # <<>>
    THEN Raise("TypeError", cls, <<AliasName(args[i].name)>>)
    ELSE IF IsSubclass(cls, args[i].name) THEN Return(BoolV(TRUE))
    ELSE UnionSubclassCheck(cls, args, i + 1)

\* isinstance(value, tp): a class or a bare alias is checked nominally, a
\* subscripted alias raises TypeError, a union checks its alternatives.  The
\* TypeError carries the alias that was refused.
IsInstance(v, tp) ==
    IF tp.kind = "literal" THEN Raise("TypeError", TypeOf(v), <<tp.name>>)
    ELSE IF tp.kind = "simple" THEN Return(BoolV(IsSubclass(TypeOf(v), tp.name)))
    ELSE IF tp.name = "Union" THEN UnionSubclassCheck(TypeOf(v), tp.args, 1)
    ELSE IF tp.args = <<>> THEN Return(BoolV(TypeOf(v) = tp.name))
    ELSE Raise("TypeError", TypeOf(v), <<AliasName(tp.name)>>)

\* isinstance(arg_value, origin) for the origin of an alias: typing.Union is
\* no class, so the check itself raises TypeError.
IsInstanceOfOrigin(v, origin) ==
    IF origin = "Union" THEN Raise("TypeError", TypeOf(v), <<"Union">>)
    ELSE Return(BoolV(TypeOf(v) = origin))

RECURSIVE AllInstances(_, _)
\* all(isinstance(x, t) for x, t in pairs): stops at the first False, and an
\* isinstance that raises ends the scan with its exception.
AllInstances(items, tps) ==
    IF items = <<>> THEN Return(BoolV(TRUE))
    ELSE LET r == IsInstance(Head(items), Head(tps))
         IN IF IsRaise(r) THEN r
            ELSE IF ~Payload(r.val) THEN r
            ELSE AllInstances(Tail(items), Tail(tps))

Repeat(tp, n) == [i \in 1..n |-> tp]

\* isinstance(k, args[0]) and isinstance(v, args[1]) for k, v in items()
EntryChecks(items) == [i \in 1..(2 * Len(items)) |-> items[(i + 1) \div 2][2 - (i % 2)]]

EntryTypes(items, args) == [i \in 1..(2 * Len(items)) |-> args[2 - (i % 2)]]

\* The element checks of one expected type whose origin the value has.
ElementsMatch(v, origin, args) ==
    IF origin = "list" /\ args # <<>>
    THEN AllInstances(Payload(v), Repeat(args[1], Len(Payload(v))))
    ELSE IF origin = "dict" /\ Len(args) = 2
    THEN AllInstances(EntryChecks(Payload(v)), EntryTypes(Payload(v), args))
    ELSE IF origin = "tuple" /\ args # <<>>
    THEN IF Len(Payload(v)) = Len(args)
         THEN AllInstances(Payload(v), args)
         ELSE Return(BoolV(FALSE))
    ELSE IF origin = "set" /\ args # <<>>
    THEN AllInstances(SetIter(Payload(v)), Repeat(args[1], Cardinality(Payload(v))))
    ELSE Return(BoolV(TRUE))

\* One turn of the loop over expected_types.
MatchesOne(v, tp) ==
    LET origin == get_origin(tp)
        args == get_args(tp)
    IN IF origin = "None" THEN IsInstance(v, tp)
       ELSE LET shape == IsInstanceOfOrigin(v, origin)
            IN IF IsRaise(shape) THEN shape
               ELSE IF ~Payload(shape.val) THEN shape
               ELSE ElementsMatch(v, origin, args)

RECURSIVE _validate_complex_types(_, _)
_validate_complex_types(arg_value, expected) ==
    IF expected = <<>> THEN Return(BoolV(FALSE))
    ELSE LET r == MatchesOne(arg_value, Head(expected))
         IN IF IsRaise(r) THEN r
            ELSE IF Payload(r.val) THEN r
            ELSE _validate_complex_types(arg_value, Tail(expected))

(***************************************************************************)
(* The explored inputs.                                                    *)
(***************************************************************************)
StrAtoms == {"", "a", "1"}

Atoms ==
    {IntV(n) : n \in 0..MaxInt} \cup {StrV(s) : s \in StrAtoms}
        \cup {BoolV(TRUE), BoolV(FALSE), NoneV}

SeqAtoms == {IntV(1), BoolV(TRUE), StrV("a")}

RECURSIVE SeqsUpTo(_, _)
SeqsUpTo(S, n) ==
    IF n = 0 THEN {<<>>}
    ELSE LET shorter == SeqsUpTo(S, n - 1)
         IN shorter \cup {Append(q, x) : q \in {p \in shorter : Len(p) = n - 1}, x \in S}

FlatSequences ==
    {ListV(q) : q \in SeqsUpTo(SeqAtoms, MaxLen)}
        \cup {TupleV(q) : q \in SeqsUpTo(SeqAtoms, MaxLen)}

PairKeys == {IntV(1), BoolV(TRUE), StrV("a")}

PairVals == {StrV("a"), StrV("1")}

Pairs ==
    {ListV(<<k, w>>) : k \in PairKeys, w \in PairVals}
        \cup {TupleV(<<k, w>>) : k \in PairKeys, w \in PairVals}

PairSequences ==
    {ListV(q) : q \in SeqsUpTo(Pairs, MaxPairs)}
        \cup {TupleV(q) : q \in SeqsUpTo(Pairs, 1)}

NestedValues ==
    { ListV(<<ListV(<<ListV(<<IntV(1)>>), StrV("a")>>)>>),
      ListV(<<ListV(<<IntV(1), IntV(1), IntV(1)>>), StrV("a")>>),
      ListV(<<ListV(<<IntV(1)>>)>>),
      ListV(<<ListV(<<IntV(1), StrV("a"), IntV(1)>>)>>),
      ListV(<<ListV(<<>>), ListV(<<StrV("1")>>)>>),
      ListV(<<TupleV(<<IntV(1), StrV("a")>>), IntV(1)>>),
      ListV(<<StrV("a"), ListV(<<IntV(1)>>)>>),
      TupleV(<<ListV(<<IntV(1)>>), IntV(1)>>) }

SetValues ==
    {SetV(S) : S \in SUBSET {IntV(n) : n \in 0..MaxInt}} \cup {SetV({StrV("a")})}

DictValues ==
    { DictV(<<>>),
      DictV(<< <<IntV(1), StrV("a")>> >>),
      DictV(<< <<StrV("a"), IntV(1)>> >>),
      DictV(<< <<StrV("1"), StrV("1")>> >>),
      DictV(<< <<IntV(1), StrV("a")>>, <<StrV("1"), StrV("1")>> >>),
      DictV(<< <<StrV("a"), ListV(<<IntV(1)>>)>> >>) }

Values ==
    Atoms \cup FlatSequences \cup PairSequences \cup NestedValues
        \cup SetValues \cup DictValues

SimpleTypes ==
    {Simple(n) : n \in {"int", "str", "bool", "list", "tuple", "set", "dict", "NoneType"}}

ElemTypes == {Simple("int"), Simple("str")}

BareAliases == {Generic(o, <<>>) : o \in {"list", "tuple", "set", "dict"}}

ContainerTypes ==
    {Generic(o, <<e>>) : o \in {"list", "set", "tuple"}, e \in ElemTypes}
        \cup {Generic("tuple", <<a, b>>) : a \in ElemTypes, b \in ElemTypes}
        \cup {Generic("dict", <<k, w>>) : k \in ElemTypes, w \in ElemTypes}

UnionAlternatives ==
    { Simple("int"), Simple("str"), Simple("NoneType"),
      Generic("list", <<Simple("int")>>),
      Generic("dict", <<Simple("str"), Simple("int")>>) }

\* typing.Union drops a repeated alternative, so the alternatives differ.
UnionTypes ==
    {Generic("Union", <<p[1], p[2]>>) :
        p \in {q \in UnionAlternatives \X UnionAlternatives : q[1] # q[2]}}

NestedTypes ==
    { Generic("list", <<Generic("list", <<Simple("int")>>)>>),
      Generic("list", <<Generic("dict", <<Simple("str"), Simple("int")>>)>>),
      Generic("set", <<Generic("list", <<Simple("int")>>)>>),
      Generic("dict", <<Simple("str"), Generic("list", <<Simple("int")>>)>>),
      Generic("list", <<Generic("Union", <<Simple("int"), Simple("str")>>)>>),
      Generic("tuple", <<Simple("int"), Generic("list", <<Simple("int")>>)>>) }

Descriptors ==
    SimpleTypes \cup BareAliases \cup ContainerTypes \cup UnionTypes \cup NestedTypes

ExpectedTypeSets ==
    {<<d>> : d \in Descriptors}
        \cup {<<a, b>> : a \in ElemTypes \cup NestedTypes, b \in ElemTypes \cup NestedTypes}

(***************************************************************************)
(* The calls: Init draws the function called and its arguments, and one    *)
(* action per public function applies it.                                  *)
(***************************************************************************)
NoType == Simple("")

NoFunction ==
    [name |-> "", params |-> <<>>, annotations |-> <<>>,
     return_annotation |-> Empty, is_async |-> FALSE]

\* No callable has been decorated.
NoWrapper ==
    /\ pc = "none" /\ func = NoFunction
    /\ strict = TRUE /\ validate_return = TRUE
    /\ custom_types = <<>> /\ types_override = <<>> /\ custom_types_at_wrap = <<>>
    /\ wrapper = NoResult
    /\ call_args = <<>> /\ call_kwargs = <<>>
    /\ types_to_validate = <<>> /\ message = <<>>
    /\ body_started = FALSE /\ body_result = NoResult /\ outcome = NoResult

Init ==
    /\ NoWrapper
    /\ result = NoResult
    /\ obj \in Values
    /\ \/ /\ op = "check_type"
          /\ target_type \in Descriptors
          /\ auto_convert \in BOOLEAN
          /\ expected_types = <<>>
       \/ /\ op \in {"to_list_of", "to_set_of"}
          /\ target_type \in ElemTypes \cup NestedTypes
          /\ auto_convert = TRUE
          /\ expected_types = <<>>
       \/ /\ op = "_validate_complex_types"
          /\ target_type = NoType
          /\ auto_convert = TRUE
          /\ expected_types \in ExpectedTypeSets

CheckType ==
    /\ op = "check_type" /\ result = NoResult
    /\ result' = check_type(obj, target_type, auto_convert)
    /\ UNCHANGED <<op, obj, target_type, auto_convert, expected_types>>
    /\ UNCHANGED wrapperVars

ToListOf ==
    /\ op = "to_list_of" /\ result = NoResult
    /\ result' = to_list_of(obj, target_type)
    /\ UNCHANGED <<op, obj, target_type, auto_convert, expected_types>>
    /\ UNCHANGED wrapperVars

ToSetOf ==
    /\ op = "to_set_of" /\ result = NoResult
    /\ result' = to_set_of(obj, target_type)
    /\ UNCHANGED <<op, obj, target_type, auto_convert, expected_types>>
    /\ UNCHANGED wrapperVars

ValidateComplexTypes ==
    /\ op = "_validate_complex_types" /\ result = NoResult
    /\ result' = _validate_complex_types(obj, expected_types)
    /\ UNCHANGED <<op, obj, target_type, auto_convert, expected_types>>
    /\ UNCHANGED wrapperVars

Next == CheckType \/ ToListOf \/ ToSetOf \/ ValidateComplexTypes

Spec == Init /\ [][Next]_vars

Done == result # NoResult

(***************************************************************************)
(* Properties of the coercion engine.                                      *)
(***************************************************************************)
Coerced == op = "check_type" /\ auto_convert /\ Done

\* C1: when the exact type of the value is the simple target type,
\* check_type returns the value itself, whatever auto_convert is.
C1_IdentityFastPath ==
    (op = "check_type" /\ Done /\ target_type.kind = "simple"
        /\ TypeOf(obj) = target_type.name)
    => result = Return(obj)

\* A dict checked against dict without auto_convert came back as it was.
C1_Witness ==
    /\ op = "check_type" /\ Done /\ ~auto_convert
    /\ target_type = Simple("dict")
    /\ obj = DictV(<< <<IntV(1), StrV("a")>> >>)
    /\ result = Return(obj)

IsSequence(v) == TypeOf(v) \in {"list", "tuple"}

IsPairValue(p) == IsSequence(p) /\ Len(Payload(p)) = 2

\* A non-empty sequence made up entirely of 2-element pairs.
MadeOfPairs(v) ==
    /\ IsSequence(v) /\ Payload(v) # <<>>
    /\ \A i \in 1..Len(Payload(v)) : IsPairValue(Payload(v)[i])

\* A sequence of even length L >= 2 none of whose elements is a pair.
EvenAndFlat(v) ==
    /\ IsSequence(v) /\ Len(Payload(v)) >= 2 /\ Len(Payload(v)) % 2 = 0
    /\ \A i \in 1..Len(Payload(v)) : ~IsPairValue(Payload(v)[i])

MappingDescriptor(tp) == tp = Simple("dict") \/ (tp.kind = "generic" /\ tp.name = "dict")

UntypedMapping(tp) == tp = Simple("dict") \/ tp = Generic("dict", <<>>)

\* The entries a sequence of pairs spells out, pair by pair.
EntriesOfPairs(v) ==
    [i \in 1..Len(Payload(v)) |-> <<Payload(Payload(v)[i])[1], Payload(Payload(v)[i])[2]>>]

\* The entries a flat sequence spells out: key, value, key, value, ...
EntriesOfAlternation(v) ==
    [i \in 1..(Len(Payload(v)) \div 2) |-> <<Payload(v)[2 * i - 1], Payload(v)[2 * i]>>]

\* d is exactly the listed entries, one per entry and in their order.
OneEntryEach(entries, d) ==
    /\ Len(d) = Len(entries)
    /\ \A i \in 1..Len(entries) : d[i] = entries[i]

\* d is the mapping left by inserting the entries in order: one item per
\* distinct key, placed where the key first occurred and spelled as it was
\* there, holding the value of the last entry with that key.
InsertedInOrder(entries, d) ==
    LET n == Len(entries)
        same(i, j) == PyEq(entries[i][1], entries[j][1])
        firsts == {i \in 1..n : \A j \in 1..(i - 1) : ~same(i, j)}
        rank(i) == Cardinality({j \in firsts : j <= i})
        last(i) == CHOOSE j \in 1..n : same(i, j) /\ \A k \in (j + 1)..n : ~same(i, k)
    IN /\ Len(d) = Cardinality(firsts)
       /\ \A i \in firsts : d[rank(i)] = <<entries[i][1], entries[last(i)][2]>>

DistinctKeys(entries) ==
    \A i, j \in 1..Len(entries) : i # j => ~PyEq(entries[i][1], entries[j][1])

HashableKeys(entries) == \A i \in 1..Len(entries) : Hashable(entries[i][1])

\* The outcome the amended mapping rules prescribe for a source that spells
\* out the given entries.
MappingRuleHolds(entries) ==
    /\ UntypedMapping(target_type) =>
          IF HashableKeys(entries)
          THEN /\ IsReturn(result) /\ TypeOf(result.val) = "dict"
               /\ InsertedInOrder(entries, Payload(result.val))
               /\ DistinctKeys(entries) => OneEntryEach(entries, Payload(result.val))
          ELSE IsRaise(result)
    /\ ~UntypedMapping(target_type) =>
          LET untyped == check_type(obj, Generic("dict", <<>>), TRUE)
          IN IF IsRaise(untyped) THEN IsRaise(result)
             ELSE result = check_type(untyped.val, target_type, TRUE)

\* C2 as stated: a sequence of pairs coerced to any mapping descriptor gives
\* one entry per pair, first element as key, second as value, in order.
C2_AsStated ==
    (Coerced /\ MappingDescriptor(target_type) /\ MadeOfPairs(obj))
    => /\ IsReturn(result) /\ TypeOf(result.val) = "dict"
       /\ OneEntryEach(EntriesOfPairs(obj), Payload(result.val))

\* C2 (amended): a non-empty sequence of pairs coerced to the simple mapping
\* type or to a mapping alias without key/value types gives the mapping built
\* by inserting the pairs in order, the pair rule being applied before the
\* even-length rule: one entry per pair when the keys are pairwise distinct,
\* otherwise one entry per distinct key with the last value; a key that cannot
\* be hashed makes the coercion fail.  With key/value types the result is that
\* mapping coerced to them.
C2_PairsBecomeEntries ==
    (Coerced /\ MappingDescriptor(target_type) /\ MadeOfPairs(obj))
    => MappingRuleHolds(EntriesOfPairs(obj))

\* Two tuple pairs, to which the even-length rule would apply as well, became
\* two entries.
C2_Witness ==
    /\ Coerced /\ target_type = Simple("dict")
    /\ obj = ListV(<<TupleV(<<IntV(1), StrV("a")>>), TupleV(<<StrV("a"), StrV("1")>>)>>)
    /\ result = Return(DictV(<< <<IntV(1), StrV("a")>>, <<StrV("a"), StrV("1")>> >>))

\* C3 as stated: a flat sequence of even length coerced to any mapping
\* descriptor gives the elements at even indices as keys and the elements
\* that follow them as values, in order.
C3_AsStated ==
    (Coerced /\ MappingDescriptor(target_type) /\ EvenAndFlat(obj))
    => /\ IsReturn(result) /\ TypeOf(result.val) = "dict"
       /\ OneEntryEach(EntriesOfAlternation(obj), Payload(result.val))

\* C3 (amended): a sequence of even length L >= 2 without pair elements,
\* coerced to the simple mapping type or to a mapping alias without key/value
\* types, gives the mapping built by inserting (element 2i, element 2i+1) in
\* order: exactly those entries when the keys are pairwise distinct,
\* otherwise one entry per distinct key with the last value; a key that cannot
\* be hashed makes the coercion fail.  With key/value types the result is that
\* mapping coerced to them.
C3_AlternationBecomesEntries ==
    (Coerced /\ MappingDescriptor(target_type) /\ EvenAndFlat(obj))
    => MappingRuleHolds(EntriesOfAlternation(obj))

\* A flat list of four elements became two entries.
C3_Witness ==
    /\ Coerced /\ target_type = Generic("dict", <<>>)
    /\ obj = ListV(<<IntV(1), StrV("a"), StrV("a"), BoolV(TRUE)>>)
    /\ result = Return(DictV(<< <<IntV(1), StrV("a")>>, <<StrV("a"), BoolV(TRUE)>> >>))

IsUnion(tp) == tp.kind = "generic" /\ tp.name = "Union"

\* The alternatives of the union to which the value coerces on its own.
Succeeding(v, args) == {i \in 1..Len(args) : IsReturn(check_type(v, args[i], TRUE))}

\* C4: when the value coerces to at least one alternative of a union on its
\* own, coercing it to the union succeeds with the result of the
\* lowest-indexed such alternative, whatever the earlier alternatives did.
C4_UnionFirstSuccess ==
    (Coerced /\ IsUnion(target_type) /\ Succeeding(obj, target_type.args) # {})
    => LET ok == Succeeding(obj, target_type.args)
           first == CHOOSE i \in ok : \A j \in ok : i <= j
       IN result = check_type(obj, target_type.args[first], TRUE)

\* C5: when the value coerces to no alternative of a union on its own,
\* coercing it to the union fails with a TypeConversionError that names every
\* alternative.
C5_UnionAllFail ==
    (Coerced /\ IsUnion(target_type) /\ Succeeding(obj, target_type.args) = {})
    => /\ IsRaise(result) /\ result.exc = "TypeConversionError"
       /\ result.names = [i \in 1..Len(target_type.args) |-> TypeName(target_type.args[i])]

\* C6: check_type with auto_convert returns a value or fails with
\* TypeConversionError; no other exception escapes.
C6_OnlyConversionError ==
    Coerced => (IsReturn(result) \/ result.exc = "TypeConversionError")

\* C7: coercing to a tuple alias of n element types fails with
\* TypeConversionError when the source does not hold n elements, and never
\* returns a tuple whose length is not n.
C7_TupleArity ==
    (Coerced /\ target_type.kind = "generic" /\ target_type.name = "tuple"
        /\ target_type.args # <<>>)
    => /\ Len(SourceItems(obj)) # Len(target_type.args)
            => (IsRaise(result) /\ result.exc = "TypeConversionError")
       /\ IsReturn(result) => Len(Payload(result.val)) = Len(target_type.args)

\* The elements of a source: a value that is not iterable, or a text, is one
\* element; a sequence gives its items, a set its members, a mapping its keys.
ElementsOf(v) ==
    IF TypeOf(v) \in {"int", "bool", "NoneType", "str"} THEN <<v>>
    ELSE IF TypeOf(v) \in {"list", "tuple"} THEN Payload(v)
    ELSE IF TypeOf(v) = "dict" THEN [i \in 1..Len(Payload(v)) |-> Payload(v)[i][1]]
    ELSE SetIter(Payload(v))

\* The result is the list, or the set, of the given elements.
CollectedInto(container, elems) ==
    IF container = "list" THEN result = Return(ListV(elems))
    ELSE IF \A i \in 1..Len(elems) : Hashable(elems[i])
    THEN /\ IsReturn(result) /\ TypeOf(result.val) = "set"
         /\ \A i \in 1..Len(elems) : \E x \in Payload(result.val) : PyEq(x, elems[i])
         /\ \A x \in Payload(result.val) : \E i \in 1..Len(elems) : x = elems[i]
         /\ \A x, y \in Payload(result.val) : PyEq(x, y) => x = y
    ELSE IsRaise(result)

\* The outcome prescribed for a list or set target with element type tp
\* (absent when hasType is false).
ElementwiseCoercion(container, hasType, tp) ==
    LET src == ElementsOf(obj)
        conv(i) == IF hasType THEN check_type(src[i], tp, TRUE) ELSE Return(src[i])
        failing == {i \in 1..Len(src) : IsRaise(conv(i))}
    IN IF failing = {}
       THEN CollectedInto(container, [i \in 1..Len(src) |-> conv(i).val])
       ELSE result = conv(CHOOSE i \in failing : \A j \in failing : i <= j)

\* C8: for a list or set target (and to_list_of / to_set_of) a source that is
\* not iterable, or is text, counts as one element; every element is coerced
\* to the element type and the results are collected into the target
\* container, unchanged when there is no element type; the first element that
\* cannot be coerced makes the call fail with that element's error.
C8_ElementwiseCollection ==
    /\ (Coerced /\ target_type.kind = "generic" /\ target_type.name \in {"list", "set"})
          => ElementwiseCoercion(target_type.name, target_type.args # <<>>,
                                 IF target_type.args # <<>> THEN target_type.args[1] ELSE NoType)
    /\ (op = "to_list_of" /\ Done) => ElementwiseCoercion("list", TRUE, target_type)
    /\ (op = "to_set_of" /\ Done) => ElementwiseCoercion("set", TRUE, target_type)

\* A text holding a numeral became a one-element list holding its integer.
C8_Witness ==
    /\ op = "to_list_of" /\ Done
    /\ obj = StrV("1") /\ target_type = Simple("int")
    /\ result = Return(ListV(<<IntV(1)>>))

(***************************************************************************)
(* Properties of the structural validator.                                 *)
(***************************************************************************)
Validated == op = "_validate_complex_types" /\ Done

\* C9: _validate_complex_types never raises: for every value and every
\* expected-type set it returns a boolean.
C9_MatchesNeverRaises ==
    Validated => (IsReturn(result) /\ TypeOf(result.val) = "bool")

RECURSIVE Conforms(_, _)
\* Conformance checked with the same rules at every depth: a class or a bare
\* alias nominally, a union by any alternative, a container by its shape and
\* by each of its elements, keys and values.
Conforms(v, tp) ==
    IF tp.kind = "simple" THEN IsSubclass(TypeOf(v), tp.name)
    ELSE IF tp.name = "Union" THEN \E i \in 1..Len(tp.args) : Conforms(v, tp.args[i])
    ELSE IF TypeOf(v) # tp.name THEN FALSE
    ELSE IF tp.args = <<>> THEN TRUE
    ELSE IF tp.name = "list" THEN \A i \in 1..Len(Payload(v)) : Conforms(Payload(v)[i], tp.args[1])
    ELSE IF tp.name = "set" THEN \A x \in Payload(v) : Conforms(x, tp.args[1])
    ELSE IF tp.name = "dict"
         THEN \A i \in 1..Len(Payload(v)) :
                 Conforms(Payload(v)[i][1], tp.args[1]) /\ Conforms(Payload(v)[i][2], tp.args[2])
    ELSE /\ Len(Payload(v)) = Len(tp.args)
         /\ \A i \in 1..Len(tp.args) : Conforms(Payload(v)[i], tp.args[i])

HasElementConstraint(tp) ==
    tp.kind = "generic" /\ tp.name \in {"list", "set", "dict", "tuple"} /\ tp.args # <<>>

\* C10: for a container descriptor with an element constraint the validator
\* returns true exactly when the shape matches and every element, key and
\* value conforms to the nested descriptor, recursively; a mismatch inside a
\* nested container gives false.
C10_RecursiveElementMatch ==
    (Validated /\ Len(expected_types) = 1 /\ HasElementConstraint(expected_types[1]))
    => result = Return(BoolV(Conforms(obj, expected_types[1])))

\* C11: with a union among the expected types the validator returns true
\* exactly when the value conforms to one of the union's alternatives (or to
\* another member of the expected set), and false otherwise.
C11_UnionMatchesAnyAlternative ==
    (Validated /\ \E i \in 1..Len(expected_types) : IsUnion(expected_types[i]))
    => result = Return(BoolV(\E i \in 1..Len(expected_types) : Conforms(obj, expected_types[i])))

\* C12 as stated: against a single class the validator returns true only for
\* a value whose type is exactly that class.
C12_AsStated ==
    (Validated /\ Len(expected_types) = 1 /\ expected_types[1].kind = "simple"
        /\ result = Return(BoolV(TRUE)))
    => TypeOf(obj) = expected_types[1].name

\* C12: against a single class the validator returns true exactly for an
\* instance of the class, which is a value of that class or of a subclass (a
\* boolean is an integer); a value that could only be coerced to the class
\* does not match.
C12_NominalSimpleMatch ==
    (Validated /\ Len(expected_types) = 1 /\ expected_types[1].kind = "simple")
    => result = Return(BoolV(\/ TypeOf(obj) = expected_types[1].name
                             \/ (TypeOf(obj) = "bool" /\ expected_types[1].name = "int")))

\* The text "1", which coercion turns into an integer, is no integer.
C12_Witness ==
    /\ Validated
    /\ obj = StrV("1") /\ expected_types = <<Simple("int")>>
    /\ result = Return(BoolV(FALSE))

(***************************************************************************)
(* The signature validation wrapper, validate_data of src/todo.py.         *)
(* A mapping keyed by parameter names (custom_types, types_override,       *)
(* types_to_validate, the bound arguments) is the sequence of its          *)
(* <<name, x>> entries in insertion order.                                 *)
(***************************************************************************)
Keys(m) == [i \in 1..Len(m) |-> m[i][1]]

HasKey(m, k) == \E i \in 1..Len(m) : m[i][1] = k

Lookup(m, k) == m[CHOOSE i \in 1..Len(m) : m[i][1] = k][2]

\* m[k] = x
SetEntry(m, k, x) ==
    IF HasKey(m, k)
    THEN [i \in 1..Len(m) |-> IF m[i][1] = k THEN <<k, x>> ELSE m[i]]
    ELSE Append(m, <<k, x>>)

IndexOf(q, x) == CHOOSE i \in 1..Len(q) : q[i] = x

Receivers == {"self", "cls"}

_normalize_types(types) == IF types.kind = "typelist" THEN types.args ELSE <<types>>

\* The empty tuple stands for the None the code returns for a parameter
\* without annotation; both are false in `if types_from_annotation`.
_extract_types_from_annotation(annotation) ==
    IF annotation = Empty THEN <<>>
    ELSE IF get_origin(annotation) = "Union" THEN get_args(annotation)
    ELSE IF get_origin(annotation) # "None" THEN <<Simple(get_origin(annotation))>>
    ELSE <<annotation>>

RECURSIVE AnnotationTypes(_, _, _)
\* The loop over sig.parameters under `if strict`.
AnnotationTypes(f, i, table) ==
    IF i > Len(f.params) THEN table
    ELSE LET types_from_annotation == _extract_types_from_annotation(f.annotations[i])
         IN AnnotationTypes(f, i + 1,
                IF f.params[i] \in Receivers \/ types_from_annotation = <<>> THEN table
                ELSE SetEntry(table, f.params[i], types_from_annotation))

RECURSIVE NormalizedInto(_, _)
\* for name, tp in given.items(): table[name] = _normalize_types(tp)
NormalizedInto(table, given) ==
    IF given = <<>> THEN table
    ELSE NormalizedInto(SetEntry(table, given[1][1], _normalize_types(given[1][2])),
                        Tail(given))

\* The table filled with the overrides before custom_types.
TypesToValidateCustomLast(f, isStrict, custom, override) ==
    NormalizedInto(
        NormalizedInto(IF isStrict THEN AnnotationTypes(f, 1, <<>>) ELSE <<>>, override),
        custom)

\* types_to_validate: the annotations when strict, then custom_types, then
\* the overrides, each written over what is already there.
TypesToValidate(f, isStrict, custom, override) ==
    NormalizedInto(
        NormalizedInto(IF isStrict THEN AnnotationTypes(f, 1, <<>>) ELSE <<>>, custom),
        override)

\* sig.bind(*args, **kwargs) for a call that gives every parameter once.
Bind(f, a, kw) ==
    [i \in 1..Len(f.params) |->
        <<f.params[i], IF i <= Len(a) THEN a[i] ELSE Lookup(kw, f.params[i])>>]

\* The characters of the names explored, in code point order.
Alphabet == "0123456789ABCDEFGHIJKLMNOPQRSTUVWXYZ_abcdefghijklmnopqrstuvwxyz"

\* The place of a character in the order of code points.
CharCode(c) == CHOOSE i \in 1..Len(Alphabet) : SubSeq(Alphabet, i, i) = c

RECURSIVE StrLess(_, _)
\* s < t for two str: the first differing character decides, and a proper
\* prefix comes first.
StrLess(s, t) ==
    IF t = "" THEN FALSE
    ELSE IF s = "" THEN TRUE
    ELSE LET cs == CharCode(SubSeq(s, 1, 1))
             ct == CharCode(SubSeq(t, 1, 1))
         IN IF cs # ct THEN cs < ct
            ELSE StrLess(SubSeq(s, 2, Len(s)), SubSeq(t, 2, Len(t)))

RECURSIVE sorted(_)
\* sorted(names) for a set of str, as a list in ascending order.
sorted(names) ==
    IF names = {} THEN <<>>
    ELSE LET least == CHOOSE n \in names : \A m \in names \ {n} : StrLess(n, m)
         IN <<least>> \o sorted(names \ {least})

_validate_override_parameters(f, override) ==
    LET param_names == {f.params[i] : i \in 1..Len(f.params)} \ Receivers
        override_parameters == {Keys(override)[i] : i \in 1..Len(override)}
        non_existent_parameters == override_parameters \ param_names
    IN IF non_existent_parameters # {}
       THEN Raise("ValueError", f.name, sorted(non_existent_parameters))
       ELSE NoResult

ListPreviewLimit == 5

ListPreviewShown == 3

DictPreviewLimit == 3

DictPreviewShown == 3

TextPreviewLimit == 50

TextPreviewShown == 47

_create_object_detail(arg, received_type) ==
    IF TypeOf(arg) \in {"list", "tuple", "set"}
    THEN LET items == IterOf(arg)
         IN IF Len(items) <= ListPreviewLimit
            THEN received_type \o "(" \o Repr(ListV(items)) \o ")"
            ELSE received_type \o "(["
                    \o JoinStr([i \in 1..ListPreviewShown |-> Payload(PyStr(items[i]))], ", ")
                    \o ", ...]) with " \o NatToStr(Len(items)) \o " elements"
    ELSE IF TypeOf(arg) = "dict"
    THEN IF Len(Payload(arg)) <= DictPreviewLimit
         THEN received_type \o "(" \o Repr(arg) \o ")"
         ELSE received_type \o "(" \o Repr(DictV(SubSeq(Payload(arg), 1, DictPreviewShown)))
                 \o "...) with " \o NatToStr(Len(Payload(arg))) \o " elements"
    ELSE IF TypeOf(arg) = "str"
    THEN IF Len(Payload(arg)) <= TextPreviewLimit
         THEN received_type \o "('" \o Payload(arg) \o "')"
         ELSE received_type \o "('" \o SubSeq(Payload(arg), 1, TextPreviewShown)
                 \o "...') with " \o NatToStr(Len(Payload(arg))) \o " characters"
    ELSE received_type \o "(" \o Repr(arg) \o ")"

\* The error_info of one parameter; position 0 stands for None.
ErrorInfo(f, a, custom, override, param_name, arg_value, expected) ==
    LET param_index == IndexOf(f.params, param_name) - 1
        is_positional == param_index < Len(a)
    IN [type |-> IF is_positional THEN "positional" ELSE "named",
        name |-> param_name,
        position |-> IF is_positional THEN param_index + 1 ELSE 0,
        expected_type |-> JoinStr([i \in 1..Len(expected) |-> TypeName(expected[i])], " | "),
        received_type |-> TypeOf(arg_value),
        object_detail |-> _create_object_detail(arg_value, TypeOf(arg_value)),
        type_source |-> IF HasKey(override, param_name) THEN "override"
                        ELSE IF custom # <<>> /\ HasKey(custom, param_name) THEN "custom_types"
                        ELSE "type hint"]

RECURSIVE ValidateEach(_, _, _, _, _, _, _, _)
\* The loop that validates each bound parameter against its expected types
\* and collects the errors; an exception of the validator ends it.
ValidateEach(f, a, custom, override, bound, table, i, errors) ==
    IF i > Len(f.params) THEN [errors |-> errors, outcome |-> NoResult]
    ELSE LET param_name == f.params[i]
         IN IF param_name \in Receivers \/ ~HasKey(table, param_name) \/ ~HasKey(bound, param_name)
            THEN ValidateEach(f, a, custom, override, bound, table, i + 1, errors)
            ELSE LET expected == Lookup(table, param_name)
                     arg_value == Lookup(bound, param_name)
                 IN IF arg_value = NoneV /\ \E j \in 1..Len(expected) : expected[j] = Simple("NoneType")
                    THEN ValidateEach(f, a, custom, override, bound, table, i + 1, errors)
                    ELSE LET r == _validate_complex_types(arg_value, expected)
                         IN IF IsRaise(r) THEN [errors |-> errors, outcome |-> r]
                            ELSE IF Payload(r.val)
                            THEN ValidateEach(f, a, custom, override, bound, table, i + 1, errors)
                            ELSE ValidateEach(f, a, custom, override, bound, table, i + 1,
                                    Append(errors, ErrorInfo(f, a, custom, override,
                                                             param_name, arg_value, expected)))

\* What the message of a ValidationError says: the number of errors and, for
\* each, the parameter, the expected and received types, the value preview
\* and the source of the expected types.  The message is its list of errors.
_create_optimized_error_message(errors) == errors

\* Gives the table built, the message and the exception raised, if any.
_validate_parameters(f, a, kw, isStrict, custom, override) ==
    LET config == _validate_override_parameters(f, override)
    IN IF IsRaise(config) THEN [table |-> <<>>, message |-> <<>>, outcome |-> config]
       ELSE LET table == TypesToValidate(f, isStrict, custom, override)
                r == ValidateEach(f, a, custom, override, Bind(f, a, kw), table, 1, <<>>)
            IN IF IsRaise(r.outcome)
               THEN [table |-> table, message |-> <<>>, outcome |-> r.outcome]
               ELSE IF r.errors # <<>>
               THEN [table |-> table,
                     message |-> _create_optimized_error_message(r.errors),
                     outcome |-> Raise("ValidationError", f.name,
                                       [i \in 1..Len(r.errors) |-> r.errors[i].name])]
               ELSE [table |-> table, message |-> <<>>, outcome |-> NoResult]

\* The message of a return mismatch names the expected type, the received
\* type and repr(result).
ReturnErrorInfo(f, res) ==
    [type |-> "return", name |-> "", position |-> 0,
     expected_type |-> TypeName(f.return_annotation),
     received_type |-> TypeOf(res),
     object_detail |-> Repr(res),
     type_source |-> ""]

_validate_return_type(f, res) ==
    IF f.return_annotation = Empty THEN [message |-> <<>>, outcome |-> NoResult]
    ELSE LET r == _validate_complex_types(res, <<f.return_annotation>>)
         IN IF IsRaise(r) THEN [message |-> <<>>, outcome |-> r]
            ELSE IF ~Payload(r.val)
            THEN [message |-> <<ReturnErrorInfo(f, res)>>,
                  outcome |-> Raise("ValidationError", f.name, <<>>)]
            ELSE [message |-> <<>>, outcome |-> NoResult]

(***************************************************************************)
(* The decorated callables, the decorator's arguments and the calls.       *)
(***************************************************************************)
Function(annotations, return_annotation, is_async) ==
    [name |-> "f", params |-> <<"a", "b">>, annotations |-> annotations,
     return_annotation |-> return_annotation, is_async |-> is_async]

OptionalInt == Generic("Union", <<Simple("int"), Simple("NoneType")>>)

ListOfInt == Generic("list", <<Simple("int")>>)

DictOfStrInt == Generic("dict", <<Simple("str"), Simple("int")>>)

\* def f(a: int, b: str) -> int, as a function and as a coroutine function;
\* def f(a: List[int], b) -> List[int]; def f(a: Dict[str, int], b) -> None;
\* def f(a: Optional[int], b: str) -> Optional[int]; def f(a, b).
Functions ==
    { Function(<<Simple("int"), Simple("str")>>, Simple("int"), FALSE),
      Function(<<Simple("int"), Simple("str")>>, Simple("int"), TRUE),
      Function(<<ListOfInt, Empty>>, ListOfInt, FALSE),
      Function(<<DictOfStrInt, Empty>>, NoneLiteral, FALSE),
      Function(<<OptionalInt, Simple("str")>>, OptionalInt, FALSE),
      Function(<<Empty, Empty>>, Empty, FALSE) }

CustomTypeMaps ==
    { <<>>,
      << <<"a", Simple("str")>> >>,
      << <<"a", Generic("Union", <<Simple("int"), Simple("str")>>)>> >>,
      << <<"a", ListOfInt>>, <<"b", Simple("int")>> >> }

Overrides ==
    { <<>>,
      << <<"a", TypeList(<<Simple("str"), Simple("NoneType")>>)>> >>,
      << <<"z", Simple("int")>> >>,
      << <<"z", Simple("int")>>, <<"y", Simple("int")>> >>,
      << <<"y", Simple("int")>>, <<"a", Simple("int")>>, <<"x", Simple("str")>> >> }

RECURSIVE RepeatStr(_, _)
RepeatStr(c, n) == IF n = 0 THEN "" ELSE c \o RepeatStr(c, n - 1)

\* A text and containers one item over the limits of the value preview.
LongText == StrV(RepeatStr("a", TextPreviewLimit + 1))

LongTuple == TupleV([i \in 1..(ListPreviewLimit + 1) |-> IntV(1)])

LongDict == DictV([i \in 1..(DictPreviewLimit + 1) |-> <<IntV(i), StrV("a")>>])

FirstArguments ==
    { IntV(1), StrV("a"), NoneV,
      ListV(<<IntV(1)>>), ListV(<<IntV(1), StrV("a")>>),
      DictV(<< <<StrV("a"), StrV("a")>> >>),
      LongText, LongTuple, LongDict }

SecondArguments == {StrV("a"), IntV(1)}

ReturnValues ==
    {IntV(1), StrV("a"), NoneV, ListV(<<IntV(1), StrV("a")>>), LongText}

NoCall ==
    /\ op = "validate_data" /\ obj = NoneV /\ target_type = NoType
    /\ auto_convert = TRUE /\ expected_types = <<>> /\ result = NoResult

\* A callable is defined and validate_data(...) has been given its arguments;
\* the decorator has not been applied yet.
WrapperInit ==
    /\ NoCall
    /\ pc = "def"
    /\ func \in Functions
    /\ strict \in BOOLEAN /\ validate_return \in BOOLEAN
    /\ custom_types \in CustomTypeMaps /\ types_override \in Overrides
    /\ custom_types_at_wrap = <<>>
    /\ wrapper = NoResult
    /\ call_args = <<>> /\ call_kwargs = <<>>
    /\ types_to_validate = <<>> /\ message = <<>>
    /\ body_started = FALSE /\ body_result = NoResult /\ outcome = NoResult

configVars == <<func, strict, validate_return, types_override>>

\* decorator(func): returns the wrapper that fits the callable.
Decorate ==
    /\ pc = "def"
    /\ wrapper' = Return(StrV(IF func.is_async THEN "async_wrapper" ELSE "sync_wrapper"))
    /\ custom_types_at_wrap' = custom_types
    /\ pc' = "ready"
    /\ UNCHANGED <<callVars, configVars, custom_types, call_args, call_kwargs,
                   types_to_validate, message, body_started, body_result, outcome>>

\* Between two calls the caller changes the mapping it gave as custom_types,
\* which is the object the wrapper holds.
MutateCustomTypes ==
    /\ pc \in {"ready", "done"}
    /\ custom_types' = SetEntry(custom_types, "a", Simple("int"))
    /\ custom_types' # custom_types
    /\ pc' = "ready"
    /\ call_args' = <<>> /\ call_kwargs' = <<>>
    /\ types_to_validate' = <<>> /\ message' = <<>>
    /\ body_started' = FALSE /\ body_result' = NoResult /\ outcome' = NoResult
    /\ UNCHANGED <<callVars, configVars, custom_types_at_wrap, wrapper>>

\* wrapper(*args, **kwargs): both arguments positional, or both by name.
Call ==
    /\ pc \in {"ready", "done"}
    /\ \E x \in FirstArguments, y \in SecondArguments, npos \in {0, 2} :
          /\ call_args' = SubSeq(<<x, y>>, 1, npos)
          /\ call_kwargs' = SubSeq(<< <<"a", x>>, <<"b", y>> >>, npos + 1, 2)
    /\ pc' = "called"
    /\ types_to_validate' = <<>> /\ message' = <<>>
    /\ body_started' = FALSE /\ body_result' = NoResult /\ outcome' = NoResult
    /\ UNCHANGED <<callVars, configVars, custom_types, custom_types_at_wrap, wrapper>>

\* The wrapper goes on to the callable whatever the validation raised.
ProceedRegardless(raised) == "validated"

\* _validate_parameters raised, which ends the call, or returned.
AfterValidation(raised) == IF IsRaise(raised) THEN "done" ELSE "validated"

\* _validate_parameters(func, args, kwargs), first statement of both wrappers.
ValidateParameters ==
    /\ pc = "called"
    /\ LET r == _validate_parameters(func, call_args, call_kwargs, strict,
                                     custom_types, types_override)
       IN /\ types_to_validate' = r.table
          /\ message' = r.message
          /\ outcome' = r.outcome
          /\ pc' = AfterValidation(r.outcome)
    /\ UNCHANGED <<callVars, configVars, custom_types, custom_types_at_wrap, wrapper,
                   call_args, call_kwargs, body_started, body_result>>

\* func(*args, **kwargs): the body of the callable begins.
InvokeBody ==
    /\ pc = "validated"
    /\ body_started' = TRUE
    /\ pc' = "running"
    /\ UNCHANGED <<callVars, configVars, custom_types, custom_types_at_wrap, wrapper,
                   call_args, call_kwargs, types_to_validate, message, body_result, outcome>>

\* The body of a coroutine function awaits something.
Suspend ==
    /\ pc = "running" /\ func.is_async
    /\ pc' = "suspended"
    /\ UNCHANGED <<callVars, configVars, custom_types, custom_types_at_wrap, wrapper,
                   call_args, call_kwargs, types_to_validate, message,
                   body_started, body_result, outcome>>

Resume ==
    /\ pc = "suspended"
    /\ pc' = "running"
    /\ UNCHANGED <<callVars, configVars, custom_types, custom_types_at_wrap, wrapper,
                   call_args, call_kwargs, types_to_validate, message,
                   body_started, body_result, outcome>>

\* The body returns a value.
BodyReturns ==
    /\ pc = "running"
    /\ \E v \in ReturnValues : body_result' = Return(v)
    /\ pc' = "returning"
    /\ UNCHANGED <<callVars, configVars, custom_types, custom_types_at_wrap, wrapper,
                   call_args, call_kwargs, types_to_validate, message, body_started, outcome>>

\* if validate_return: _validate_return_type(func, result); return result
ValidateReturn ==
    /\ pc = "returning"
    /\ LET r == IF validate_return THEN _validate_return_type(func, body_result.val)
                ELSE [message |-> <<>>, outcome |-> NoResult]
       IN /\ message' = r.message
          /\ outcome' = IF IsRaise(r.outcome) THEN r.outcome ELSE body_result
    /\ pc' = "done"
    /\ UNCHANGED <<callVars, configVars, custom_types, custom_types_at_wrap, wrapper,
                   call_args, call_kwargs, types_to_validate, body_started, body_result>>

WrapperNext ==
    \/ Decorate
    \/ MutateCustomTypes
    \/ Call
    \/ ValidateParameters
    \/ InvokeBody
    \/ Suspend
    \/ Resume
    \/ BodyReturns
    \/ ValidateReturn

WrapperSpec == WrapperInit /\ [][WrapperNext]_vars

(***************************************************************************)
(* Properties of the signature validation wrapper.                         *)
(***************************************************************************)
\* A call has been made and _validate_parameters has run.
PastValidation == pc \in {"validated", "running", "suspended", "returning", "done"}

Invoked == pc = "called" \/ PastValidation

BoundValue(p) == Lookup(Bind(func, call_args, call_kwargs), p)

AnnotationOf(p) == func.annotations[IndexOf(func.params, p)]

\* The expected types of parameter p by precedence: the override, else the
\* entry of custom_types, else the annotation in strict mode, else none.
EffectiveTypes(p) ==
    IF HasKey(types_override, p) THEN _normalize_types(Lookup(types_override, p))
    ELSE IF HasKey(custom_types, p) THEN _normalize_types(Lookup(custom_types, p))
    ELSE IF strict THEN _extract_types_from_annotation(AnnotationOf(p))
    ELSE <<>>

EffectiveSource(p) ==
    IF HasKey(types_override, p) THEN "override"
    ELSE IF HasKey(custom_types, p) THEN "custom_types"
    ELSE "type hint"

\* The argument bound to p conforms to none of the expected types of p.
FailsValidation(p) ==
    LET expected == EffectiveTypes(p)
        v == BoundValue(p)
    IN /\ expected # <<>>
       /\ ~(v = NoneV /\ \E j \in 1..Len(expected) : expected[j] = Simple("NoneType"))
       /\ ~\E j \in 1..Len(expected) : Conforms(v, expected[j])

FailingParameters == SelectSeq(func.params, FailsValidation)

BadOverride ==
    \E i \in 1..Len(types_override) :
        \A j \in 1..Len(func.params) : types_override[i][1] # func.params[j]

\* C13: a call in which k >= 1 parameters fail validation, the overrides
\* naming parameters only, raises one ValidationError whose report lists all
\* k failing parameters; validation does not stop at the first failure.
C13_AllFailuresInOneError ==
    (PastValidation /\ ~BadOverride /\ FailingParameters # <<>>)
    => /\ pc = "done"
       /\ outcome = Raise("ValidationError", func.name, FailingParameters)
       /\ Len(message) = Len(FailingParameters)
       /\ \A j \in 1..Len(message) : message[j].name = FailingParameters[j]

\* C14: for a function and for a coroutine function alike, in a call where
\* an argument fails validation the body of the callable never begins: the
\* call ends in the validation, and a ValidationError about parameters is
\* never raised once the body has begun.
C14_ValidationBeforeInvocation ==
    /\ (Invoked /\ FailingParameters # <<>>) => (~body_started /\ pc \in {"called", "done"})
    /\ (pc = "done" /\ IsRaise(outcome) /\ outcome.exc = "ValidationError"
           /\ outcome.names # <<>>) => ~body_started

\* A coroutine function called with a text for its integer parameter: the
\* call ended with the ValidationError and the body did not begin.
C14_Witness ==
    /\ pc = "done" /\ func.is_async
    /\ call_args = <<StrV("a"), StrV("a")>>
    /\ outcome = Raise("ValidationError", "f", <<"a">>)
    /\ ~body_started

\* C15: an override that names no parameter of the callable makes the
\* decorator fail with a configuration error when it is applied: no wrapper
\* is returned and no call is ever made.
C15_ConfigurationErrorAtWrapTime ==
    BadOverride
    => /\ wrapper # NoResult => (IsRaise(wrapper) /\ wrapper.exc = "ValueError")
       /\ ~Invoked

\* C16: the expected types a call validates parameter p against are the
\* override for p if given, else custom_types[p] if present, else the
\* annotation of p in strict mode, else p is not validated; the source named
\* in a diagnostic is the source that supplied the expected types.
C16_EffectiveTypePrecedence ==
    (PastValidation /\ ~BadOverride)
    => /\ \A i \in 1..Len(func.params) :
             IF EffectiveTypes(func.params[i]) = <<>>
             THEN ~HasKey(types_to_validate, func.params[i])
             ELSE /\ HasKey(types_to_validate, func.params[i])
                  /\ Lookup(types_to_validate, func.params[i]) = EffectiveTypes(func.params[i])
       /\ \A j \in 1..Len(message) :
             message[j].type # "return"
             => message[j].type_source = EffectiveSource(message[j].name)

\* Parameter a has an annotation, an entry in custom_types and an override:
\* the integer 1 was rejected against the override.
C16_Witness ==
    /\ pc = "done" /\ strict
    /\ AnnotationOf("a") = Simple("int")
    /\ HasKey(custom_types, "a") /\ HasKey(types_override, "a")
    /\ call_args = <<IntV(1), StrV("a")>>
    /\ Len(message) = 1
    /\ message[1].name = "a" /\ message[1].type_source = "override"
    /\ message[1].expected_type = "str | NoneType"

\* Conformance to a declared return type; the annotation None is the type
\* of the value None.
ConformsToReturn(v, tp) == IF tp = NoneLiteral THEN v = NoneV ELSE Conforms(v, tp)

\* C17: with validate_return set and a declared return type, a call whose
\* arguments are valid returns the result of the callable unchanged exactly
\* when the result conforms to that type, and otherwise raises a
\* ValidationError naming the callable, the expected and the received type;
\* with validate_return unset or no declared return type the result is
\* returned unchecked.
C17_ReturnValidation ==
    (pc = "done" /\ body_result # NoResult)
    => IF validate_return /\ func.return_annotation # Empty
       THEN IF ConformsToReturn(body_result.val, func.return_annotation)
            THEN outcome = body_result
            ELSE /\ outcome = Raise("ValidationError", func.name, <<>>)
                 /\ Len(message) = 1
                 /\ message[1].expected_type = TypeName(func.return_annotation)
                 /\ message[1].received_type = TypeOf(body_result.val)
       ELSE outcome = body_result

\* C18: the arguments a call accepts or rejects are those accepted or
\* rejected with the custom_types mapping as it was when the decorator was
\* applied, whatever was changed in the mapping since.
C18_TableFixedAtWrapTime ==
    (PastValidation /\ ~BadOverride)
    => LET atWrap == _validate_parameters(func, call_args, call_kwargs, strict,
                                          custom_types_at_wrap, types_override)
       IN (pc = "done" /\ ~body_started) <=> IsRaise(atWrap.outcome)

\* C19: in strict mode a parameter annotated with a container and its type
\* arguments, with no override and no custom type, rejects an argument of
\* the right outer shape holding an element, key or value of the wrong type:
\* the call raises a ValidationError for that parameter.
C19_StrictElementValidation ==
    (PastValidation /\ ~BadOverride /\ strict)
    => \A i \in 1..Len(func.params) :
          LET p == func.params[i]
              annotation == func.annotations[i]
          IN (/\ ~HasKey(types_override, p) /\ ~HasKey(custom_types, p)
              /\ HasElementConstraint(annotation)
              /\ TypeOf(BoundValue(p)) = annotation.name
              /\ ~Conforms(BoundValue(p), annotation))
             => /\ pc = "done"
                /\ IsRaise(outcome) /\ outcome.exc = "ValidationError"
                /\ \E j \in 1..Len(outcome.names) : outcome.names[j] = p

\* A text over the limit of characters, a container over the limit of items.
IsLong(v) ==
    \/ TypeOf(v) = "str" /\ Len(Payload(v)) > TextPreviewLimit
    \/ TypeOf(v) \in {"list", "tuple"} /\ Len(Payload(v)) > ListPreviewLimit
    \/ TypeOf(v) = "set" /\ Cardinality(Payload(v)) > ListPreviewLimit
    \/ TypeOf(v) = "dict" /\ Len(Payload(v)) > DictPreviewLimit

SizeOf(v) == IF TypeOf(v) = "set" THEN Cardinality(Payload(v)) ELSE Len(Payload(v))

EndsWith(s, t) == Len(s) >= Len(t) /\ SubSeq(s, Len(s) - Len(t) + 1, Len(s)) = t

Contains(s, t) == \E i \in 1..(Len(s) - Len(t) + 1) : SubSeq(s, i, i + Len(t) - 1) = t

\* The preview leaves out part of the value and ends with its size.
TruncatedWithCount(preview, v) ==
    /\ ~Contains(preview, Repr(v))
    /\ EndsWith(preview, " with " \o NatToStr(SizeOf(v))
                    \o (IF TypeOf(v) = "str" THEN " characters" ELSE " elements"))

\* The value a diagnostic is about.
DiagnosedValue(entry) ==
    IF entry.type = "return" THEN body_result.val ELSE BoundValue(entry.name)

\* C20: every diagnostic of a ValidationError, about a parameter or about
\* the return value, previews a long text or a long container truncated,
\* with the size of the value appended.
C20_BoundedPreview ==
    (pc = "done" /\ IsRaise(outcome) /\ outcome.exc = "ValidationError")
    => \A j \in 1..Len(message) :
          IsLong(DiagnosedValue(message[j]))
          => TruncatedWithCount(message[j].object_detail, DiagnosedValue(message[j]))

(***************************************************************************)
(* Coercion against the structural validator.                              *)
(***************************************************************************)
\* C21: coercing an empty list or tuple to a mapping descriptor gives the
\* empty mapping, as for any other sequence of even length.
C21_EmptySequenceToMapping ==
    (Coerced /\ IsSequence(obj) /\ Payload(obj) = <<>> /\ MappingDescriptor(target_type))
    => result = Return(DictV(<<>>))

\* The validator answers true for the value against the one descriptor.
Matches(v, tp) == _validate_complex_types(v, <<tp>>) = Return(BoolV(TRUE))

\* C22: a value that the validator accepts for a descriptor is coerced to
\* that descriptor without change: the coercion succeeds and returns a value
\* equal to the source and of the same type.
C22_CoercionPreservesConforming ==
    (Coerced /\ Matches(obj, target_type))
    => /\ IsReturn(result)
       /\ PyEq(result.val, obj)
       /\ TypeOf(result.val) = TypeOf(obj)

\* C23: the result of a successful coercion is accepted by the validator for
\* the target descriptor.
C23_CoercionOutputConforms ==
    (Coerced /\ IsReturn(result)) => Matches(result.val, target_type)

====
